---- MODULE Spec2Model ----
(***************************************************************************)
(* xbfwup (src/src/bin/xbfwup.c): programs a firmware image into an XBee    *)
(* module.  main() drives the module into its bootloader, and               *)
(* xb_firmware_update() sends the image with XMODEM-CRC.                    *)
(*                                                                         *)
(* The program is single-threaded; pc is its position.  The serial device  *)
(* and the kernel are the environment: every system call draws its result  *)
(* from a small set.  io is the record of the latest calls made on the     *)
(* serial link, in order, with what each one transferred; calls counts all *)
(* of them.                                                                *)
(*                                                                         *)
(* Bytes are numbers 0..255.  char signedness and the host byte order are  *)
(* properties of the build: the steps that depend on them range over both. *)
(***************************************************************************)
EXTENDS Integers, Sequences, FiniteSets, TLC

(* ---------------------------------------------------------------- bytes *)
SOH == 1
EOT == 4
ACK == 6
CR == 13
ChPlus == 43
ChOne == 49
ChTwo == 50
ChA == 65
ChC == 67
ChF == 70
ChO == 79
ChR == 82
ChT == 84
FILL == 255
\* a byte of malloc'ed memory that has not been written
Uninit == -1

BlockLen == 128
ProbeCeiling == 20
GoAheadBuf == 128
ProbeBuf == 1024
B115200 == 115200
B9600 == 9600
CrcPoly == 4129
CmdBufLen == 256
CrcTop == 32768

(* --------------------------------------------------------------- bounds *)
\* system-call failures the environment may inject in one run
MaxFaults == 1
\* in a loop, the rounds (counted from 0) in which a failure may be injected
FaultRounds == 2
\* the firmware files of SpecUpdate have up to this many blocks
MaxFileBlocks == 3
\* the firmware file of SpecWrap has this many blocks
WrapBlocks == 257
\* a short read() of the firmware file delivers this many bytes
FileChunk == 100
\* the read() calls of the firmware file (counted from 0) that may be short
ShortReads == 2
\* byte patterns of the firmware files: 0..MaxPat
MaxPat == 1
\* byte patterns of the blocks given to xmodem_crc in SpecCrc: 0..MaxMul
MaxMul == 6
\* io keeps the latest LogCap calls
LogCap == 64
\* wait_for_ok reads at most this many bytes other than 'O' before the 'O'
MaxSkip == 2
\* the formatted arguments of SpecCommand have up to this many characters
MaxArgLen == 257
\* SpecWrite: the buffers given to xb_write have up to this many bytes
MaxWriteLen == 4
\* SpecWrite: the results of up to this many write() calls are chosen
MaxWrites == 3

VARIABLES
    pc,        \* position of the program
    status,    \* exit status of the process, "running" until it exits
    tty,       \* settings of the serial line in the kernel
    saved,     \* settings of the serial line before the session
    brk,       \* the line is held in a break condition
    mctl,      \* modem control lines as last set by TIOCMSET
    serial,    \* main: struct termios serial
    i,         \* main: int i, the probe counter
    wfo_ret,   \* where wait_for_ok returns to
    fwfile,    \* the firmware file behind fwfd: [len, pat]
    fwbuf,     \* xb_firmware_update: the stores made into fwbuf, in order
    len,       \* xb_firmware_update: size_t len
    off,       \* xb_firmware_update: size_t off
    block,     \* xb_firmware_update: uint8_t block
    bi,        \* xb_firmware_update: unsigned int i
    header,    \* xb_firmware_update: char header[3]
    fwret,     \* value returned by xb_firmware_update
    progress,  \* number of "." printed on stdout
    diag,      \* last warning printed on stderr: <<message, argument>>
    io,        \* the latest calls made on the serial link, in order
    calls,     \* the number of calls made so far, per operation and site
    faults,    \* system-call failures injected so far
    crcIn,     \* SpecCrc: the block given to xmodem_crc
    crcOut,    \* SpecCrc: what xmodem_crc returned, per build
    wfoSeen,   \* wait_for_ok: the bytes its reads have taken from the link
    cmdArg,    \* xb_send_command: the formatted argument
    cmdBuf,    \* xb_send_command: the stores made through buf, by index
    cmdOff,    \* xb_send_command: size_t off
    cmdRet,    \* xb_send_command: the value returned
    wrBuf,     \* SpecWrite: the buffer given to xb_write
    wrRets,    \* SpecWrite: what the successive write() calls return
    wrOut      \* SpecWrite: what xb_write returned and what the stream took

vars == <<pc, status, tty, saved, brk, mctl, serial, i, wfo_ret, fwfile, fwbuf,
          len, off, block, bi, header, fwret, progress, diag, io, calls,
          faults, crcIn, crcOut, wfoSeen, cmdArg, cmdBuf, cmdOff, cmdRet,
          wrBuf, wrRets, wrOut>>

mainVars == <<serial, i>>
lineVars == <<tty, saved, brk, mctl>>
fwVars == <<fwbuf, len, off, block, bi, header, fwret, progress>>
crcVars == <<crcIn, crcOut>>
link == <<io, calls>>
cmdVars == <<cmdArg, cmdBuf, cmdOff, cmdRet>>
wrVars == <<wrBuf, wrRets, wrOut>>

(* -------------------------------------------------------------- helpers *)
Min(a, b) == IF a < b THEN a ELSE b

Last(s) == s[Len(s)]

RECURSIVE Flatten(_)
Flatten(ss) == IF ss = <<>> THEN <<>> ELSE Head(ss) \o Flatten(Tail(ss))

\* bitwise exclusive or of two naturals
RECURSIVE Xor(_, _)
Xor(a, b) ==
    IF a = 0 THEN b
    ELSE IF b = 0 THEN a
    ELSE ((a + b) % 2) + 2 * Xor(a \div 2, b \div 2)

\* n ^ bit, bit a power of two
Toggle(n, bit) == IF (n \div bit) % 2 = 1 THEN n - bit ELSE n + bit

\* the low 16 bits of a two's complement int: what a uint16_t keeps
Low16(n) == n % 65536

\* the low 8 bits: what a uint8_t keeps
Low8(n) == n % 256

\* the value of a byte read through `char`
CharVal(byte, charSigned) == IF charSigned /\ byte >= 128 THEN byte - 256 ELSE byte

(* ----------------------------------------------------------- xmodem_crc *)
\* rem ^= data[i] << 8: data[i] is promoted to int (negative for a byte of
\* 0x80..0xFF where char is signed), shifted, and the uint16_t rem keeps the
\* low 16 bits of the exclusive or.  The shift of a negative int is not
\* defined by C; the compilers that build this program (gcc, clang) shift the
\* two's complement value, which is what all of them produce and what is
\* taken here.
CrcXorByte(rem, byte, charSigned) ==
    Xor(rem, Low16(CharVal(byte, charSigned) * 256))

\* a variant with the polynomial 0x8005
XorPolyArc(n) == Toggle(Toggle(Toggle(n, 32768), 4), 1)

\* n ^ 0x1021, 0x1021 = 2^12 + 2^5 + 2^0
XorPoly(n) == Toggle(Toggle(Toggle(n, 4096), 32), 1)

\* one round of the inner loop: rem & 0x8000 selects the branch, and the
\* uint16_t rem keeps the low 16 bits of the int result
CrcShift(rem) ==
    IF (rem \div CrcTop) % 2 = 1
    THEN Low16(XorPoly(rem * 2))
    ELSE Low16(rem * 2)

\* the single element of a one-element set; {F(v) : v \in {e}} evaluates e
\* once, before F
Only(S) == CHOOSE y \in S : TRUE

\* the inner loop, for(j = 0; j < 8; j++)
RECURSIVE CrcBits(_, _)
CrcBits(rem, j) ==
    IF j = 8 THEN rem
    ELSE Only({CrcBits(r, j + 1) : r \in {CrcShift(rem)}})

\* the outer loop over data[lo .. hi-1] (0-based), starting from rem
RECURSIVE CrcBytes(_, _, _, _, _)
CrcBytes(data, lo, hi, rem, charSigned) ==
    IF lo >= hi THEN rem
    ELSE Only({CrcBytes(data, lo + 1, hi, r, charSigned) :
                 r \in {CrcBits(CrcXorByte(rem, data[lo + 1], charSigned), 0)}})

\* the outer loop from lo to 128, taken in runs of 16 bytes to bound the
\* depth of evaluation
RECURSIVE CrcRuns(_, _, _, _)
CrcRuns(data, lo, rem, charSigned) ==
    IF lo >= BlockLen THEN rem
    ELSE Only({CrcRuns(data, lo + 16, r, charSigned) :
                 r \in {CrcBytes(data, lo, Min(lo + 16, BlockLen), rem, charSigned)}})

\* xmodem_crc(data): rem = 0, for(i = 0; i < 128; i++), return rem
xmodem_crc(data, charSigned) == CrcRuns(data, 0, 0, charSigned)

\* a variant that leaves the value in host order
htobe16Skipped(x, littleEndian) == x

\* htobe16(x) on a host of the given byte order
htobe16(x, littleEndian) ==
    IF littleEndian THEN (x % 256) * 256 + (x \div 256) ELSE x

\* the two bytes of a uint16_t in memory order, as (const char *)&crc reads them
MemBytes16(x, littleEndian) ==
    IF littleEndian THEN <<x % 256, x \div 256>> ELSE <<x \div 256, x % 256>>
(* ------------------------------------------------- xb_write and xb_read *)
\* xb_write(fd, buf, count) against a stream whose successive write() calls
\* return rets (once rets is used up the stream takes all that is left).
\* sent is what the stream accepted.
\* a variant that calls write() again after a write() that returned 0 or -1
RECURSIVE XbWriteRetry(_, _, _)
XbWriteRetry(buf, rets, sent) ==
    IF Len(buf) = 0 THEN [ret |-> 0, sent |-> sent]
    ELSE LET r == IF rets = <<>> THEN Len(buf) ELSE Min(Head(rets), Len(buf))
             n == IF r <= 0 THEN 0 ELSE r
         IN  XbWriteRetry(SubSeq(buf, n + 1, Len(buf)),
                          IF rets = <<>> THEN rets ELSE Tail(rets),
                          sent \o SubSeq(buf, 1, n))

RECURSIVE XbWriteLoop(_, _, _)
XbWriteLoop(buf, rets, sent) ==
    IF Len(buf) = 0 THEN [ret |-> 0, sent |-> sent]
    ELSE LET r == IF rets = <<>> THEN Len(buf) ELSE Min(Head(rets), Len(buf))
         IN  IF r <= 0 THEN [ret |-> -1, sent |-> sent]
             ELSE XbWriteLoop(SubSeq(buf, r + 1, Len(buf)),
                              IF rets = <<>> THEN rets ELSE Tail(rets),
                              sent \o SubSeq(buf, 1, r))

xb_write(buf, rets) == XbWriteLoop(buf, rets, <<>>)

\* xb_read(fd, buf, count) against a stream whose successive read() calls
\* return script[1], script[2], ...: each [ret, data], ret <= 0 or
\* ret = Len(data).  poll() reports input exactly while the script goes on.
\* buf is what the call stored in the buffer.
RECURSIVE XbReadLoop(_, _, _)
XbReadLoop(count, script, buf) ==
    LET rd == Head(script)
        n  == IF rd.ret <= 0 THEN rd.ret ELSE Min(rd.ret, count - Len(buf))
        nb == buf \o SubSeq(rd.data, 1, n)
    IN  IF n <= 0 THEN [ret |-> n, buf |-> buf]
        ELSE IF Len(script) > 1 /\ Len(nb) < count
             THEN XbReadLoop(count, Tail(script), nb)
             ELSE [ret |-> Len(nb), buf |-> nb]

xb_read(count, script) == XbReadLoop(count, script, <<>>)

(* ---------------------------------------------------------- environment *)
Timeout == [ret |-> 0, data |-> <<>>]
IoError == [ret |-> -1, data |-> <<>>]
Chunk(bytes) == [ret |-> Len(bytes), data |-> bytes]

\* what successive write() calls may return for a request of n bytes
WriteScripts(n) ==
    {<<n>>, <<0>>, <<-1>>}
        \cup (IF n > 1 THEN {<<1, n - 1>>, <<1, -1>>} ELSE {})

\* a script of write() results holds a failure
WriteFails(rets) == \E k \in DOMAIN rets : rets[k] <= 0

\* a script of read() results holds an error
ReadFails(script) == \E k \in DOMAIN script : script[k].ret < 0

\* replies to a probe "\r": silence, an error, the prompt "BL >"
ProbeScripts == {<<Timeout>>, <<IoError>>, <<Chunk(<<66, 76, 32, 62>>)>>}

\* replies to the menu selection: "\r\nC" at once or in two reads, a reply
\* ending in another byte, silence, an error, an error after "C"
GoAheadScripts ==
    {<<Chunk(<<CR, 10, ChC>>)>>,
     <<Chunk(<<CR, 10>>), Chunk(<<ChC>>)>>,
     <<Chunk(<<ChC, CR>>)>>,
     <<Chunk(<<21>>)>>,
     <<Timeout>>,
     <<IoError>>,
     <<Chunk(<<CR, 10, ChC>>), IoError>>}

\* replies to a block: ACK, NAK, the payload's own 'C', nothing, an error
AckReads == {Chunk(<<ACK>>), Chunk(<<21>>), Chunk(<<ChC>>), Timeout, IoError}

\* replies to EOT: ACK and a message, ACK alone then the message, NAK, a
\* message ending in ACK, silence, an error, ACK then end of input
ConfirmScripts ==
    {<<Chunk(<<ACK, CR, 10>>)>>,
     <<Chunk(<<ACK>>), Chunk(<<CR, 10>>)>>,
     <<Chunk(<<21>>)>>,
     <<Chunk(<<CR, ACK>>)>>,
     <<Timeout>>,
     <<IoError>>,
     <<Chunk(<<ACK>>), Timeout>>}

\* byte k (from 0) of a firmware file
FileByte(f, k) == (k * (2 * f.pat + 1) + 250 - f.pat) % 256

\* line settings before the session
PreSettings == {[speed |-> sp, vmin |-> 1, vtime |-> 0] : sp \in {B9600, 57600}}

NoTermios == [speed |-> 0, vmin |-> 0, vtime |-> 0]

(* ------------------------------------------------------ common updates *)
\* the call at `at` on the link: op "w" with the bytes accepted, op "r"
\* with the bytes stored; nth counts the calls of that operation at that site
Sites ==
    {"guard", "at", "probe", "menu", "goahead", "header", "data", "crc", "ack",
     "eot", "confirm", "run"}

CallKeys == {"w", "r"} \X Sites

Ev(op, at, ret, bytes) ==
    [op |-> op, at |-> at, nth |-> calls[<<op, at>>] + 1, ret |-> ret, bytes |-> bytes]

WriteEv(at, ret, bytes) == Ev("w", at, ret, bytes)
ReadEv(at, ret, bytes) == Ev("r", at, ret, bytes)

\* the latest LogCap entries of a log
Window(log) ==
    IF Len(log) > LogCap THEN SubSeq(log, Len(log) - LogCap + 1, Len(log)) ELSE log

\* the calls evs, each of another operation or site, are made
Record(evs) ==
    /\ io' = Window(io \o evs)
    /\ calls' = [c \in CallKeys |->
                    IF \E k \in DOMAIN evs : <<evs[k].op, evs[k].at>> = c
                    THEN calls[c] + 1 ELSE calls[c]]

\* the environment lets n system calls fail in round `round` of a loop
\* (round 0 outside loops)
Inject(n, round) ==
    /\ faults + n <= MaxFaults
    /\ n > 0 => round < FaultRounds
    /\ faults' = faults + n

\* err()/errx(): the process exits at once
Die == pc' = "exit" /\ status' = "EXIT_FAILURE"

\* return -1 from xb_firmware_update, after warn()
FwFail(msg) == pc' = "m_check" /\ fwret' = -1 /\ diag' = msg
(* ----------------------------------------------------------------- Init *)
\* no function has run yet
Fresh ==
    /\ brk = FALSE
    /\ wfo_ret = "none"
    /\ fwbuf = <<>>
    /\ len = 0
    /\ off = 0
    /\ block = 0
    /\ bi = 0
    /\ header = <<>>
    /\ fwret = 0
    /\ progress = 0
    /\ diag = <<>>
    /\ faults = 0
    /\ crcIn = <<>>
    /\ crcOut = <<>>
    /\ wfoSeen = <<>>
    /\ cmdArg = <<>>
    /\ cmdBuf = <<>>
    /\ cmdOff = 0
    /\ cmdRet = 0
    /\ wrBuf = <<>>
    /\ wrRets = <<>>
    /\ wrOut = <<>>

\* the process starts: the line has its settings from before the session
InitWith(files, settings) ==
    /\ pc = "m_open"
    /\ status = "running"
    /\ saved \in settings
    /\ tty = saved
    /\ mctl = "unset"
    /\ serial = NoTermios
    /\ i = 0
    /\ fwfile \in files
    /\ io = <<>>
    /\ calls = [c \in CallKeys |-> 0]
    /\ Fresh

\* the whole session is run on a file of one block, from a line at 9600
SessionFiles == {[len |-> 44, pat |-> 0]}

Init == InitWith(SessionFiles, {[speed |-> B9600, vmin |-> 1, vtime |-> 0]})

(* ----------------------------------------------------------------- main *)
\* argc, open(argv[1]), open("/dev/ttyUSB0"), tcgetattr(xbfd, &serial)
MainOpen ==
    /\ pc = "m_open"
    /\ \/ /\ serial' = tty
          /\ pc' = "m_guard"
          /\ UNCHANGED <<status, faults>>
       \/ /\ Inject(1, 0)
          /\ Die
          /\ UNCHANGED serial
    /\ UNCHANGED <<lineVars, i, wfo_ret, fwfile, fwVars, diag, link, crcVars,
                   wfoSeen, cmdVars, wrVars>>

\* sleep(1); write(xbfd, "+++", 3); sleep(1); wait_for_ok(xbfd)
MainGuard ==
    /\ pc = "m_guard"
    /\ \E r \in {3, 1, -1} :
          /\ Inject(IF r = 3 THEN 0 ELSE 1, 0)
          /\ Record(<<WriteEv("guard", r,
                        SubSeq(<<ChPlus, ChPlus, ChPlus>>, 1, IF r > 0 THEN r ELSE 0))>>)
    /\ pc' = "wfo_scan"
    /\ wfo_ret' = "m_fr"
    /\ UNCHANGED <<status, lineVars, mainVars, fwfile, fwVars, diag, crcVars,
                   wfoSeen, cmdVars, wrVars>>

\* the bytes the device may send while the program waits for "OK\r"
WaitBytes == {ChO, 75, CR}

\* wait_for_ok: do { if (read(fd, buf, 1) > 0 && *buf == 'O') break;
\* usleep(100000); } while (1);
WaitScan ==
    /\ pc = "wfo_scan"
    /\ \E rd \in {Timeout, IoError} \cup {Chunk(<<b>>) : b \in WaitBytes} :
          /\ (rd.ret > 0 /\ rd.data[1] # ChO) => Len(wfoSeen) < MaxSkip
          /\ wfoSeen' = wfoSeen \o rd.data
          /\ pc' = IF rd.ret > 0 /\ rd.data[1] = ChO THEN "wfo_r1" ELSE "wfo_scan"
    /\ UNCHANGED <<status, lineVars, mainVars, wfo_ret, fwfile, fwVars, diag, link,
                   faults, crcVars, cmdVars, wrVars>>

\* read(fd, buf, 1) after the loop: a byte, nothing, or an error; the result
\* is not looked at
TailRead(from, to) ==
    /\ pc = from
    /\ \E rd \in {Timeout, IoError} \cup {Chunk(<<b>>) : b \in WaitBytes} :
          /\ Inject(IF rd.ret < 0 THEN 1 ELSE 0, 0)
          /\ wfoSeen' = wfoSeen \o rd.data
    /\ pc' = to
    /\ UNCHANGED <<status, lineVars, mainVars, wfo_ret, fwfile, fwVars, diag, link,
                   crcVars, cmdVars, wrVars>>

\* wait_for_ok: the first read(fd, buf, 1) after the loop
WaitTail1 == TailRead("wfo_r1", "wfo_r2")

\* wait_for_ok: the second read(fd, buf, 1) after the loop
WaitTail2 == TailRead("wfo_r2", "wfo_done")

\* wait_for_ok returns to its caller
WaitReturn ==
    /\ pc = "wfo_done"
    /\ pc' = wfo_ret
    /\ wfo_ret' = "none"
    /\ wfoSeen' = <<>>
    /\ UNCHANGED <<status, lineVars, mainVars, fwfile, fwVars, diag, link, faults,
                   crcVars, cmdVars, wrVars>>

\* the request xb_send_command builds for a command without argument
AtRequest(cmd) == <<ChA, ChT>> \o cmd \o <<CR>>

\* xb_send_command(xbfd, "FR", ""): the request is written, then
\* wait_for_ok; main does not look at the result
MainForceReset ==
    /\ pc = "m_fr"
    /\ \E rets \in WriteScripts(5) :
          LET w == xb_write(AtRequest(<<ChF, ChR>>), rets)
          IN  /\ Inject(IF WriteFails(rets) THEN 1 ELSE 0, 0)
              /\ Record(<<WriteEv("at", w.ret, w.sent)>>)
    /\ pc' = "wfo_scan"
    /\ wfo_ret' = "m_lines1"
    /\ UNCHANGED <<status, lineVars, mainVars, fwfile, fwVars, diag, crcVars,
                   wfoSeen, cmdVars, wrVars>>

\* i = TIOCM_DTR | TIOCM_CTS; ioctl(xbfd, TIOCMSET, &i): the result is not
\* looked at.  Used at both places of main.
SetLines(from, to) ==
    /\ pc = from
    /\ \/ mctl' = "DTR_CTS" /\ UNCHANGED faults
       \/ Inject(1, 0) /\ UNCHANGED mctl
    /\ pc' = to
    /\ UNCHANGED <<status, tty, saved, brk, mainVars, wfo_ret, fwfile, fwVars,
                   diag, link, crcVars,
                   wfoSeen, cmdVars, wrVars>>

MainLines1 == SetLines("m_lines1", "m_sbrk")

\* ioctl(xbfd, TIOCSBRK); sleep(2)
MainSetBreak ==
    /\ pc = "m_sbrk"
    /\ \/ brk' = TRUE /\ UNCHANGED faults
       \/ Inject(1, 0) /\ UNCHANGED brk
    /\ pc' = "m_cbrk"
    /\ UNCHANGED <<status, tty, saved, mctl, mainVars, wfo_ret, fwfile, fwVars,
                   diag, link, crcVars,
                   wfoSeen, cmdVars, wrVars>>

\* ioctl(xbfd, TIOCCBRK)
MainClearBreak ==
    /\ pc = "m_cbrk"
    /\ \/ brk' = FALSE /\ UNCHANGED faults
       \/ Inject(1, 0) /\ UNCHANGED brk
    /\ pc' = "m_lines2"
    /\ UNCHANGED <<status, tty, saved, mctl, mainVars, wfo_ret, fwfile, fwVars,
                   diag, link, crcVars,
                   wfoSeen, cmdVars, wrVars>>

MainLines2 == SetLines("m_lines2", "m_setbaud")

\* cfsetspeed(&serial, B115200); VMIN = 0; VTIME = 1; tcsetattr; i = 0
MainSetBaud ==
    /\ pc = "m_setbaud"
    /\ serial' = [speed |-> B115200, vmin |-> 0, vtime |-> 1]
    /\ \/ /\ tty' = serial'
          /\ pc' = "m_probe"
          /\ i' = 0
          /\ UNCHANGED <<status, faults>>
       \/ /\ Inject(1, 0)
          /\ Die
          /\ UNCHANGED <<tty, i>>
    /\ UNCHANGED <<saved, brk, mctl, wfo_ret, fwfile, fwVars, diag, link, crcVars,
                   wfoSeen, cmdVars, wrVars>>

\* a variant that also breaks on a failed read
ProbeAnsweredOrFailed(r) == r.ret # 0

\* if ( (ret = xb_read(xbfd, buf, sizeof(buf))) > 0) break
ProbeAnswered(r) == r.ret > 0

\* one round of for(i = 0; i < 20; i++): xb_write "\r" (result not looked
\* at), xb_read, break on a reply
ProbeRound ==
    /\ pc = "m_probe"
    /\ i < ProbeCeiling
    /\ \E rets \in WriteScripts(1), script \in ProbeScripts :
          LET w == xb_write(<<CR>>, rets)
              r == xb_read(ProbeBuf, script)
          IN  /\ Inject((IF WriteFails(rets) THEN 1 ELSE 0)
                        + (IF ReadFails(script) THEN 1 ELSE 0), i)
              /\ Record(<<WriteEv("probe", w.ret, w.sent),
                          ReadEv("probe", r.ret, r.buf)>>)
              /\ IF ProbeAnswered(r)
                 THEN pc' = "m_restore" /\ UNCHANGED i
                 ELSE pc' = "m_probe" /\ i' = i + 1
    /\ UNCHANGED <<status, lineVars, serial, wfo_ret, fwfile, fwVars, diag, crcVars,
                   wfoSeen, cmdVars, wrVars>>

\* the loop ends with i = 20
ProbeEnd ==
    /\ pc = "m_probe"
    /\ ~(i < ProbeCeiling)
    /\ pc' = "m_restore"
    /\ UNCHANGED <<status, lineVars, mainVars, wfo_ret, fwfile, fwVars, diag, link,
                   faults, crcVars,
                   wfoSeen, cmdVars, wrVars>>

\* a variant that does not look at what tcsetattr returns
MainRestoreUnchecked ==
    /\ pc = "m_restore"
    /\ serial' = [serial EXCEPT !.vmin = 1, !.vtime = 0]
    /\ \/ tty' = serial' /\ UNCHANGED faults
       \/ Inject(1, 0) /\ UNCHANGED tty
    /\ pc' = "fw_menu"
    /\ UNCHANGED <<status, saved, brk, mctl, i, wfo_ret, fwfile, fwVars, diag, link,
                   crcVars, wfoSeen, cmdVars, wrVars>>

\* VMIN = 1; VTIME = 0; tcsetattr; then the call of xb_firmware_update
MainRestore ==
    /\ pc = "m_restore"
    /\ serial' = [serial EXCEPT !.vmin = 1, !.vtime = 0]
    /\ \/ /\ tty' = serial'
          /\ pc' = "fw_menu"
          /\ UNCHANGED <<status, faults>>
       \/ /\ Inject(1, 0)
          /\ Die
          /\ UNCHANGED tty
    /\ UNCHANGED <<saved, brk, mctl, i, wfo_ret, fwfile, fwVars, diag, link, crcVars,
                   wfoSeen, cmdVars, wrVars>>

\* a variant that does not look at what xb_firmware_update returns
MainCheckIgnored ==
    /\ pc = "m_check"
    /\ pc' = "m_run"
    /\ UNCHANGED <<status, lineVars, mainVars, wfo_ret, fwfile, fwVars, diag, link,
                   faults, crcVars, wfoSeen, cmdVars, wrVars>>

\* if (xb_firmware_update(xbfd, fwfd)) errx(EXIT_FAILURE, ...)
MainCheck ==
    /\ pc = "m_check"
    /\ IF fwret # 0
       THEN Die
       ELSE pc' = "m_run" /\ UNCHANGED status
    /\ UNCHANGED <<lineVars, mainVars, wfo_ret, fwfile, fwVars, diag, link, faults,
                   crcVars,
                   wfoSeen, cmdVars, wrVars>>

\* xb_write(xbfd, "2", 1): the result is not looked at
MainRun ==
    /\ pc = "m_run"
    /\ \E rets \in WriteScripts(1) :
          LET w == xb_write(<<ChTwo>>, rets)
          IN  /\ Inject(IF WriteFails(rets) THEN 1 ELSE 0, 0)
              /\ Record(<<WriteEv("run", w.ret, w.sent)>>)
    /\ pc' = "m_cleanup"
    /\ UNCHANGED <<status, lineVars, mainVars, wfo_ret, fwfile, fwVars, diag, crcVars,
                   wfoSeen, cmdVars, wrVars>>

\* cfsetspeed(&serial, B9600); tcsetattr; close; return EXIT_SUCCESS
MainCleanup ==
    /\ pc = "m_cleanup"
    /\ serial' = [serial EXCEPT !.speed = B9600]
    /\ \/ /\ tty' = serial'
          /\ status' = "EXIT_SUCCESS"
          /\ UNCHANGED faults
       \/ /\ Inject(1, 0)
          /\ status' = "EXIT_FAILURE"
          /\ UNCHANGED tty
    /\ pc' = "exit"
    /\ UNCHANGED <<saved, brk, mctl, i, wfo_ret, fwfile, fwVars, diag, link, crcVars,
                   wfoSeen, cmdVars, wrVars>>
(* --------------------------------------------------- xb_firmware_update *)
\* xb_write(xbfd, "1", 1)
FwMenu ==
    /\ pc = "fw_menu"
    /\ \E rets \in WriteScripts(1) :
          LET w == xb_write(<<ChOne>>, rets)
          IN  /\ Inject(IF WriteFails(rets) THEN 1 ELSE 0, 0)
              /\ Record(<<WriteEv("menu", w.ret, w.sent)>>)
              /\ IF w.ret # 0
                 THEN FwFail(<<"failed to enter programming mode">>)
                 ELSE pc' = "fw_goahead" /\ UNCHANGED <<fwret, diag>>
    /\ UNCHANGED <<status, lineVars, mainVars, wfo_ret, fwfile, fwbuf, len, off,
                   block, bi, header, progress, crcVars,
                   wfoSeen, cmdVars, wrVars>>

\* a variant that looks at the first byte of the reply
WrongTransferTypeFirst(r) == r.buf[1] # ChC

\* if (buf[ret - 1] != 'C')
WrongTransferType(r) == r.buf[r.ret] # ChC

\* ret = xb_read(xbfd, buf, sizeof(buf)); ret <= 0 fails; buf[ret - 1] != 'C'
\* fails
FwGoAhead ==
    /\ pc = "fw_goahead"
    /\ \E script \in GoAheadScripts :
          LET r == xb_read(GoAheadBuf, script)
          IN  /\ Inject(IF ReadFails(script) THEN 1 ELSE 0, 0)
              /\ Record(<<ReadEv("goahead", r.ret, r.buf)>>)
              /\ IF r.ret <= 0
                 THEN FwFail(<<"failed to read programming go-ahead">>)
                 ELSE IF WrongTransferType(r)
                 THEN FwFail(<<"unknown transfer type">>)
                 ELSE pc' = "fw_stat" /\ UNCHANGED <<fwret, diag>>
    /\ UNCHANGED <<status, lineVars, mainVars, wfo_ret, fwfile, fwbuf, len, off,
                   block, bi, header, progress, crcVars,
                   wfoSeen, cmdVars, wrVars>>

\* fstat(fwfd, &stbuf) < 0 fails; stbuf.st_size == 0 fails
FwStat ==
    /\ pc = "fw_stat"
    /\ \/ /\ Inject(1, 0)
          /\ FwFail(<<"failed to stat firmware file">>)
       \/ /\ UNCHANGED faults
          /\ IF fwfile.len = 0
             THEN FwFail(<<"empty firmware file!">>)
             ELSE pc' = "fw_alloc" /\ UNCHANGED <<fwret, diag>>
    /\ UNCHANGED <<status, lineVars, mainVars, wfo_ret, fwfile, fwbuf, len, off,
                   block, bi, header, progress, link, crcVars,
                   wfoSeen, cmdVars, wrVars>>

\* a variant that always adds
RoundUpAlways(size) == size + BlockLen - (size % BlockLen)

\* len = st_size; len += (len % 128 ? 128 - (len % 128) : 0)
RoundUp(size) ==
    size + (IF size % BlockLen # 0 THEN BlockLen - (size % BlockLen) ELSE 0)

\* a store of n bytes at fwbuf + dst: 0xFF throughout, or the bytes of the
\* file from position pos
Memset(dst, n) == [dst |-> dst, n |-> n, fill |-> TRUE, pos |-> 0]
FromFile(dst, n, pos) == [dst |-> dst, n |-> n, fill |-> FALSE, pos |-> pos]

\* the byte at buf + k after the stores made so far: what the latest store
\* over it put there
RECURSIVE MemByte(_, _, _)
MemByte(buf, f, k) ==
    IF buf = <<>> THEN Uninit
    ELSE LET st == buf[Len(buf)]
         IN  IF k >= st.dst /\ k < st.dst + st.n
             THEN IF st.fill THEN FILL ELSE FileByte(f, st.pos + (k - st.dst))
             ELSE MemByte(SubSeq(buf, 1, Len(buf) - 1), f, k)

\* the rounding, malloc(len), memset(fwbuf + st_size, 0xff, len - st_size),
\* off = 0.  The bytes below st_size are not initialised yet.
FwAlloc ==
    /\ pc = "fw_alloc"
    /\ len' = RoundUp(fwfile.len)
    /\ \/ /\ Inject(1, 0)
          /\ FwFail(<<"failed to allocate memory">>)
          /\ UNCHANGED <<fwbuf, off>>
       \/ /\ UNCHANGED <<faults, fwret, diag>>
          /\ fwbuf' = <<Memset(fwfile.len, len' - fwfile.len)>>
          /\ off' = 0
          /\ pc' = "fw_read"
    /\ UNCHANGED <<status, lineVars, mainVars, wfo_ret, fwfile, block, bi, header,
                   progress, link, crcVars,
                   wfoSeen, cmdVars, wrVars>>

\* what read(fwfd, fwbuf + off, len - off) may deliver with the file
\* position at off: all that is left, or a short count
FileReads(f, o, l) ==
    LET rest == Min(f.len - o, l - o)
    IN  {rest} \cup (IF o \div FileChunk < ShortReads THEN {Min(rest, FileChunk)} ELSE {})

\* one round of do { ret = read(fwfd, fwbuf + off, len - off); if (ret < 0)
\* return -1; off += ret; } while (ret); then the printf, block = 1, i = 0
FwRead ==
    /\ pc = "fw_read"
    /\ \/ /\ Inject(1, off \div FileChunk)
          /\ pc' = "m_check"
          /\ fwret' = -1
          /\ UNCHANGED <<fwbuf, off, block, bi>>
       \/ /\ UNCHANGED <<faults, fwret>>
          /\ \E n \in FileReads(fwfile, off, len) :
                /\ fwbuf' = IF n > 0 THEN Append(fwbuf, FromFile(off, n, off)) ELSE fwbuf
                /\ off' = off + n
                /\ IF n # 0
                   THEN pc' = "fw_read" /\ UNCHANGED <<block, bi>>
                   ELSE pc' = "fw_hdr" /\ block' = 1 /\ bi' = 0
    /\ UNCHANGED <<status, lineVars, mainVars, wfo_ret, fwfile, len, header,
                   progress, diag, link, crcVars,
                   wfoSeen, cmdVars, wrVars>>

\* fwbuf + (i * 128), 128 bytes
BlockAt(buf, f, n) == [k \in 1..BlockLen |-> MemByte(buf, f, n * BlockLen + k - 1)]

\* a variant with the two's complement of the block number
HeaderNegated(b) == <<SOH, b, Low8(256 - b)>>

\* a variant that skips 0
NextBlockFromOne(b) == IF b = 255 THEN 1 ELSE b + 1

\* header[0] = SOH; header[1] = block; header[2] = (uint8_t)(255 - block)
Header(b) == <<SOH, b, Low8(255 - b)>>

\* block++ on a uint8_t
NextBlock(b) == Low8(b + 1)

\* the loop test i < len / 128; in the loop the header and its xb_write,
\* after the loop printf("\n")
FwHeader ==
    /\ pc = "fw_hdr"
    /\ IF bi < len \div BlockLen
       THEN /\ header' = Header(block)
            /\ \E rets \in WriteScripts(3) :
                  LET w == xb_write(header', rets)
                  IN  /\ Inject(IF WriteFails(rets) THEN 1 ELSE 0, bi)
                      /\ Record(<<WriteEv("header", w.ret, w.sent)>>)
                      /\ IF w.ret # 0
                         THEN FwFail(<<"failed to write XMODEM header, block", bi>>)
                         ELSE pc' = "fw_data" /\ UNCHANGED <<fwret, diag>>
       ELSE /\ pc' = "fw_eot"
            /\ UNCHANGED <<header, link, faults, fwret, diag>>
    /\ UNCHANGED <<status, lineVars, mainVars, wfo_ret, fwfile, fwbuf, len, off,
                   block, bi, progress, crcVars,
                   wfoSeen, cmdVars, wrVars>>

\* xb_write(xbfd, fwbuf + (i * 128), 128)
FwData ==
    /\ pc = "fw_data"
    /\ \E rets \in WriteScripts(BlockLen) :
          LET w == xb_write(BlockAt(fwbuf, fwfile, bi), rets)
          IN  /\ Inject(IF WriteFails(rets) THEN 1 ELSE 0, bi)
              /\ Record(<<WriteEv("data", w.ret, w.sent)>>)
              /\ IF w.ret # 0
                 THEN FwFail(<<"failed to write XMODEM data, block", bi>>)
                 ELSE pc' = "fw_crc" /\ UNCHANGED <<fwret, diag>>
    /\ UNCHANGED <<status, lineVars, mainVars, wfo_ret, fwfile, fwbuf, len, off,
                   block, bi, header, progress, crcVars,
                   wfoSeen, cmdVars, wrVars>>

\* crc = xmodem_crc(fwbuf + (i * 128)); crc = htobe16(crc);
\* xb_write(xbfd, (const char *)&crc, 2)
CrcWire(crc, littleEndian) == MemBytes16(htobe16(crc, littleEndian), littleEndian)

FwCrc ==
    /\ pc = "fw_crc"
    /\ \E charSigned \in BOOLEAN :
       \E crc \in {xmodem_crc(BlockAt(fwbuf, fwfile, bi), charSigned)} :
       \E littleEndian \in BOOLEAN, rets \in WriteScripts(2) :
          LET w == xb_write(CrcWire(crc, littleEndian), rets)
          IN  /\ Inject(IF WriteFails(rets) THEN 1 ELSE 0, bi)
              /\ Record(<<WriteEv("crc", w.ret, w.sent)>>)
              /\ IF w.ret # 0
                 THEN FwFail(<<"failed to write XMODEM CRC, block", bi>>)
                 ELSE pc' = "fw_ack" /\ UNCHANGED <<fwret, diag>>
    /\ UNCHANGED <<status, lineVars, mainVars, wfo_ret, fwfile, fwbuf, len, off,
                   block, bi, header, progress, crcVars,
                   wfoSeen, cmdVars, wrVars>>

\* a variant that looks only at what read() returns
AckRejectedCountOnly(rd) == rd.ret <= 0

\* if (read(xbfd, reply, 1) <= 0 || *reply != '\x06')
AckRejected(rd) == rd.ret <= 0 \/ rd.data[1] # ACK

\* read(xbfd, reply, 1) <= 0 || *reply != '\x06' fails; else the progress
\* dot, then block++, i++
FwAck ==
    /\ pc = "fw_ack"
    /\ \E rd \in AckReads :
          /\ Inject(IF rd.ret < 0 THEN 1 ELSE 0, bi)
          /\ Record(<<ReadEv("ack", rd.ret, rd.data)>>)
          /\ IF AckRejected(rd)
             THEN /\ FwFail(<<"failed to transfer block", bi>>)
                  /\ UNCHANGED <<progress, block, bi>>
             ELSE /\ progress' = progress + 1
                  /\ block' = NextBlock(block)
                  /\ bi' = bi + 1
                  /\ pc' = "fw_hdr"
                  /\ UNCHANGED <<fwret, diag>>
    /\ UNCHANGED <<status, lineVars, mainVars, wfo_ret, fwfile, fwbuf, len, off,
                   header, crcVars,
                   wfoSeen, cmdVars, wrVars>>

\* xb_write(xbfd, "\x04", 1)
FwEot ==
    /\ pc = "fw_eot"
    /\ \E rets \in WriteScripts(1) :
          LET w == xb_write(<<EOT>>, rets)
          IN  /\ Inject(IF WriteFails(rets) THEN 1 ELSE 0, 0)
              /\ Record(<<WriteEv("eot", w.ret, w.sent)>>)
              /\ IF w.ret # 0
                 THEN FwFail(<<"failed to write XMODEM EOT">>)
                 ELSE pc' = "fw_confirm" /\ UNCHANGED <<fwret, diag>>
    /\ UNCHANGED <<status, lineVars, mainVars, wfo_ret, fwfile, fwbuf, len, off,
                   block, bi, header, progress, crcVars,
                   wfoSeen, cmdVars, wrVars>>

\* a variant that looks at the last byte of the reply
ConfirmRejectedLast(r) == r.ret <= 0 \/ Last(r.buf) # ACK

\* if (xb_read(xbfd, buf, sizeof(buf)) <= 0 || *buf != '\x06')
ConfirmRejected(r) == r.ret <= 0 \/ r.buf[1] # ACK

\* xb_read(xbfd, buf, sizeof(buf)) <= 0 || *buf != '\x06' fails; return 0
FwConfirm ==
    /\ pc = "fw_confirm"
    /\ \E script \in ConfirmScripts :
          LET r == xb_read(GoAheadBuf, script)
          IN  /\ Inject(IF ReadFails(script) THEN 1 ELSE 0, 0)
              /\ Record(<<ReadEv("confirm", r.ret, r.buf)>>)
              /\ IF ConfirmRejected(r)
                 THEN FwFail(<<"failed to read programming confirmation">>)
                 ELSE pc' = "m_check" /\ fwret' = 0 /\ UNCHANGED diag
    /\ UNCHANGED <<status, lineVars, mainVars, wfo_ret, fwfile, fwbuf, len, off,
                   block, bi, header, progress, crcVars,
                   wfoSeen, cmdVars, wrVars>>

(* ------------------------------------------------------- specifications *)
Handshake ==
    \/ MainOpen
    \/ MainGuard
    \/ WaitScan
    \/ WaitTail1
    \/ WaitTail2
    \/ WaitReturn
    \/ MainForceReset
    \/ MainLines1
    \/ MainSetBreak
    \/ MainClearBreak
    \/ MainLines2
    \/ MainSetBaud
    \/ ProbeRound
    \/ ProbeEnd
    \/ MainRestore

Update ==
    \/ FwMenu
    \/ FwGoAhead
    \/ FwStat
    \/ FwAlloc
    \/ FwRead
    \/ FwHeader
    \/ FwData
    \/ FwCrc
    \/ FwAck
    \/ FwEot
    \/ FwConfirm
    \/ MainCheck
    \/ MainRun
    \/ MainCleanup

Next == Handshake \/ Update

\* the whole program
Spec == Init /\ [][Next]_vars
(* the update alone: main has reached the call of xb_firmware_update after a
   handshake in which every call succeeded and the first probe was answered *)
HandshakeIo ==
    <<[op |-> "w", at |-> "guard", nth |-> 1, ret |-> 3, bytes |-> <<ChPlus, ChPlus, ChPlus>>],
      [op |-> "w", at |-> "at", nth |-> 1, ret |-> 0, bytes |-> AtRequest(<<ChF, ChR>>)],
      [op |-> "w", at |-> "probe", nth |-> 1, ret |-> 0, bytes |-> <<CR>>],
      [op |-> "r", at |-> "probe", nth |-> 1, ret |-> 4, bytes |-> <<66, 76, 32, 62>>]>>

InitAtUpdate(files, settings) ==
    /\ pc = "fw_menu"
    /\ status = "running"
    /\ saved \in settings
    /\ tty = [speed |-> B115200, vmin |-> 1, vtime |-> 0]
    /\ mctl = "DTR_CTS"
    /\ serial = tty
    /\ i = 0
    /\ fwfile \in files
    /\ io = HandshakeIo
    /\ calls = [c \in CallKeys |->
                   IF \E k \in DOMAIN HandshakeIo :
                         <<HandshakeIo[k].op, HandshakeIo[k].at>> = c
                   THEN 1 ELSE 0]
    /\ Fresh

\* an empty file, and files that end 1, 44, 127 and 128 bytes into a block
UpdateFiles ==
    {[len |-> 0, pat |-> 0]}
        \cup {[len |-> BlockLen * b + d, pat |-> p] :
                b \in 0..(MaxFileBlocks - 1), d \in {1, 44, 127, BlockLen}, p \in 0..MaxPat}

InitUpdate == InitAtUpdate(UpdateFiles, PreSettings)

SpecUpdate == InitUpdate /\ [][Update]_vars

\* the update of one long file, whose last block is partly filled
WrapFiles == {[len |-> BlockLen * WrapBlocks - 3, pat |-> 0]}

InitWrap == InitAtUpdate(WrapFiles, {[speed |-> B9600, vmin |-> 1, vtime |-> 0]})

SpecWrap == InitWrap /\ [][Update]_vars

(* xmodem_crc alone, on blocks data[k] = (mul * k + add) mod 256 *)
CrcBlocks ==
    {[k \in 1..BlockLen |-> (mul * k + add) % 256] :
        mul \in 0..MaxMul, add \in {0, 1, 85, 127, 128, 170, 254, 255}}

InitCrc ==
    /\ pc = "crc_call"
    /\ status = "running"
    /\ saved \in {[speed |-> B9600, vmin |-> 1, vtime |-> 0]}
    /\ tty = saved
    /\ mctl = "unset"
    /\ serial = NoTermios
    /\ i = 0
    /\ fwfile = [len |-> 0, pat |-> 0]
    /\ io = <<>>
    /\ calls = [c \in CallKeys |-> 0]
    /\ brk = FALSE
    /\ wfo_ret = "none"
    /\ fwbuf = <<>>
    /\ len = 0
    /\ off = 0
    /\ block = 0
    /\ bi = 0
    /\ header = <<>>
    /\ fwret = 0
    /\ progress = 0
    /\ diag = <<>>
    /\ faults = 0
    /\ crcIn \in CrcBlocks
    /\ crcOut = <<>>
    /\ wfoSeen = <<>>
    /\ cmdArg = <<>>
    /\ cmdBuf = <<>>
    /\ cmdOff = 0
    /\ cmdRet = 0
    /\ wrBuf = <<>>
    /\ wrRets = <<>>
    /\ wrOut = <<>>

\* crc = xmodem_crc(crcIn), in a build with signed char and in one with
\* unsigned char
CrcCall ==
    /\ pc = "crc_call"
    /\ crcOut' = [charSigned \in BOOLEAN |-> xmodem_crc(crcIn, charSigned)]
    /\ pc' = "crc_done"
    /\ UNCHANGED <<status, lineVars, mainVars, wfo_ret, fwfile, fwVars, diag, link,
                   faults, crcIn, wfoSeen, cmdVars, wrVars>>

SpecCrc == InitCrc /\ [][CrcCall]_vars

(* xb_write alone: every buffer of up to MaxWriteLen bytes against every
   sequence of up to MaxWrites results of write() *)
WriteBuffers ==
    {[k \in 1..n |-> base + k] : n \in 0..MaxWriteLen, base \in {0, 64}}

\* write(fd, buf, count) returns -1, 0 or a count of bytes
WriteResults == -1..MaxWriteLen

WriteRuns == UNION {[1..n -> WriteResults] : n \in 0..MaxWrites}

InitWrite ==
    /\ pc = "wr_call"
    /\ status = "running"
    /\ saved \in {[speed |-> B9600, vmin |-> 1, vtime |-> 0]}
    /\ tty = saved
    /\ mctl = "unset"
    /\ serial = NoTermios
    /\ i = 0
    /\ fwfile = [len |-> 0, pat |-> 0]
    /\ io = <<>>
    /\ calls = [c \in CallKeys |-> 0]
    /\ brk = FALSE
    /\ wfo_ret = "none"
    /\ fwbuf = <<>>
    /\ len = 0
    /\ off = 0
    /\ block = 0
    /\ bi = 0
    /\ header = <<>>
    /\ fwret = 0
    /\ progress = 0
    /\ diag = <<>>
    /\ faults = 0
    /\ crcIn = <<>>
    /\ crcOut = <<>>
    /\ wfoSeen = <<>>
    /\ cmdArg = <<>>
    /\ cmdBuf = <<>>
    /\ cmdOff = 0
    /\ cmdRet = 0
    /\ wrBuf \in WriteBuffers
    /\ wrRets \in WriteRuns
    /\ wrOut = <<>>

\* ret = xb_write(fd, wrBuf, Len(wrBuf)) against a stream whose write()
\* calls return wrRets
WriteCall ==
    /\ pc = "wr_call"
    /\ wrOut' = xb_write(wrBuf, wrRets)
    /\ pc' = "wr_done"
    /\ UNCHANGED <<status, lineVars, mainVars, wfo_ret, fwfile, fwVars, diag, link,
                   faults, crcVars, wfoSeen, cmdVars, wrBuf, wrRets>>

SpecWrite == InitWrite /\ [][WriteCall]_vars

(* xb_send_command alone, with its wait_for_ok: commands with a formatted
   argument of 0..2 characters and of lengths around the size of buf *)
\* the characters vsnprintf(buf + off, size, format, ap) stores for the
\* formatted argument arg: those that fit in size - 1, then NUL
Formatted(arg, size) == SubSeq(arg, 1, Min(Len(arg), size - 1)) \o <<0>>

\* buf after bytes are stored at buf[at], buf[at + 1], ...
StoreAt(buf, at, bytes) ==
    [k \in DOMAIN buf \cup at..(at + Len(bytes) - 1) |->
        IF k >= at /\ k < at + Len(bytes) THEN bytes[k - at + 1] ELSE buf[k]]

\* the count bytes from buf that xb_write(fd, buf, count) is given; a byte
\* never stored is whatever the memory holds
Passed(buf, count) ==
    [k \in 1..count |-> IF (k - 1) \in DOMAIN buf THEN buf[k - 1] ELSE Uninit]

CmdArgs ==
    {[k \in 1..n |-> 48 + (k % 10)] : n \in 0..2 \cup (CmdBufLen - 8)..MaxArgLen}

InitCommand ==
    /\ pc = "cmd_build"
    /\ status = "running"
    /\ saved \in {[speed |-> B9600, vmin |-> 1, vtime |-> 0]}
    /\ tty = saved
    /\ mctl = "unset"
    /\ serial = tty
    /\ i = 0
    /\ fwfile = [len |-> 0, pat |-> 0]
    /\ io = <<>>
    /\ calls = [c \in CallKeys |-> 0]
    /\ brk = FALSE
    /\ wfo_ret = "none"
    /\ fwbuf = <<>>
    /\ len = 0
    /\ off = 0
    /\ block = 0
    /\ bi = 0
    /\ header = <<>>
    /\ fwret = 0
    /\ progress = 0
    /\ diag = <<>>
    /\ faults = 0
    /\ crcIn = <<>>
    /\ crcOut = <<>>
    /\ wfoSeen = <<>>
    /\ cmdArg \in CmdArgs
    /\ cmdBuf = <<>>
    /\ cmdOff = 0
    /\ cmdRet = 0
    /\ wrBuf = <<>>
    /\ wrRets = <<>>
    /\ wrOut = <<>>

\* buf[0..3] = "AT" cmd[0] cmd[1]; off = 4; if (*format) { ret = vsnprintf(buf
\* + off, sizeof(buf) - off, ...); if (ret < 0 || ret >= sizeof(buf)) return
\* -1; off += ret; }
CmdBuild ==
    /\ pc = "cmd_build"
    /\ LET head == StoreAt(cmdBuf, 0, <<ChA, ChT, ChF, ChR>>)
           ret  == Len(cmdArg)
       IN  IF cmdArg # <<>>
           THEN /\ cmdBuf' = StoreAt(head, 4, Formatted(cmdArg, CmdBufLen - 4))
                /\ IF ret >= CmdBufLen
                   THEN pc' = "cmd_done" /\ cmdRet' = -1 /\ cmdOff' = 4
                   ELSE pc' = "cmd_write" /\ cmdOff' = 4 + ret /\ UNCHANGED cmdRet
           ELSE /\ cmdBuf' = head
                /\ pc' = "cmd_write"
                /\ cmdOff' = 4
                /\ UNCHANGED cmdRet
    /\ UNCHANGED <<status, lineVars, mainVars, wfo_ret, fwfile, fwVars, diag, link,
                   faults, crcVars, wfoSeen, cmdArg, wrVars>>

\* buf[off++] = '\r'; ret = xb_write(fd, buf, off); wait_for_ok(fd).  A
\* store past the end of buf is not defined: the process is killed, or the
\* store lands in the memory behind buf and the function goes on.
CmdWrite ==
    /\ pc = "cmd_write"
    /\ cmdBuf' = StoreAt(cmdBuf, cmdOff, <<CR>>)
    /\ cmdOff' = cmdOff + 1
    /\ \/ /\ cmdOff >= CmdBufLen
          /\ pc' = "exit"
          /\ status' = "killed"
          /\ UNCHANGED <<link, faults, cmdRet, wfo_ret>>
       \/ /\ \E rets \in WriteScripts(cmdOff') :
                LET w == xb_write(Passed(cmdBuf', cmdOff'), rets)
                IN  /\ Inject(IF WriteFails(rets) THEN 1 ELSE 0, 0)
                    /\ Record(<<WriteEv("at", w.ret, w.sent)>>)
                    /\ cmdRet' = w.ret
          /\ pc' = "wfo_scan"
          /\ wfo_ret' = "cmd_done"
          /\ UNCHANGED status
    /\ UNCHANGED <<lineVars, mainVars, fwfile, fwVars, diag, crcVars, wfoSeen, cmdArg, wrVars>>

Command ==
    \/ CmdBuild
    \/ CmdWrite
    \/ WaitScan
    \/ WaitTail1
    \/ WaitTail2
    \/ WaitReturn

SpecCommand == InitCommand /\ [][Command]_vars

(* ----------------------------------------------------------- properties *)
\* the positions in io of the calls at a site
At(site) == {j \in DOMAIN io : io[j].at = site}

\* the calls at the sites of an operation, in order
Calls(op, sites) == SelectSeq(io, LAMBDA e : e.op = op /\ e.at \in sites)

\* the bytes the calls of a sequence carried, in order
Bytes(evs) == Flatten([k \in DOMAIN evs |-> evs[k].bytes])

\* the sites of the XMODEM bytes
XmodemSites == {"header", "data", "crc", "eot"}

\* xb_firmware_update has returned
Returned == pc \in {"m_check", "m_run", "m_cleanup", "exit"}

\* the number of blocks of a file, and the image the blocks are cut from:
\* the file's bytes, then 0xFF up to the end of the last block
Blocks(f) == (f.len + 127) \div 128

Image(f) == [k \in 1..(128 * Blocks(f)) |-> IF k <= f.len THEN FileByte(f, k - 1) ELSE 255]

\* a reply to a block that is not the single byte 0x06
BadReply(e) == e.ret <= 0 \/ e.bytes # <<ACK>>

\* a go-ahead that is missing or does not end in 'C'
BadGoAhead(e) == e.ret <= 0 \/ Last(e.bytes) # ChC

\* a confirmation of at least one byte, the first 0x06
GoodConfirm(e) == e.ret >= 1 /\ e.bytes[1] = ACK

(* CRC-16/XMODEM by its definition: the remainder of message * x^16 divided
   by x^16 + x^12 + x^5 + 1 over GF(2), the bits of each byte taken most
   significant first, from a register of 0, with no final exclusive or *)
DivStep(reg, bit) ==
    LET r == 2 * reg + bit
    IN  IF r >= 65536 THEN Xor(r, 65536 + CrcPoly) ELSE r

RECURSIVE DivByte(_, _, _)
DivByte(reg, byte, weight) ==
    IF weight = 0 THEN reg
    ELSE Only({DivByte(r, byte, weight \div 2) :
                 r \in {DivStep(reg, (byte \div weight) % 2)}})

RECURSIVE DivBytes(_, _, _, _)
DivBytes(msg, lo, hi, reg) ==
    IF lo > hi THEN reg
    ELSE Only({DivBytes(msg, lo + 1, hi, r) : r \in {DivByte(reg, msg[lo], 128)}})

RECURSIVE DivRuns(_, _, _)
DivRuns(msg, lo, reg) ==
    IF lo > Len(msg) THEN reg
    ELSE Only({DivRuns(msg, lo + 16, r) :
                 r \in {DivBytes(msg, lo, Min(lo + 15, Len(msg)), reg)}})

Crc16Xmodem(data) == DivRuns(data \o <<0, 0>>, 1, 0)

\* C1: whatever the image and the block k, once the reply byte read after
\* block k's checksum is not 0x06, or that read fails, xb_firmware_update has
\* returned -1 at block k and that read is the last call on the link: there
\* is no header of block k+1, no EOT, and main exits with failure without
\* writing the run-firmware byte.
C1_RejectedBlockStops ==
    \A j \in DOMAIN io :
        (io[j].at = "ack" /\ BadReply(io[j])) =>
            /\ j = Len(io)
            /\ fwret = -1
            /\ pc \in {"m_check", "exit"}
            /\ pc = "exit" => status = "EXIT_FAILURE"
            /\ Cardinality(At("ack")) = bi + 1
            /\ Cardinality(At("header")) = bi + 1
            /\ progress = bi
            /\ At("eot") = {}
            /\ At("run") = {}

\* the second of three blocks was answered with NAK and the process has ended
C1_Witness ==
    /\ pc = "exit"
    /\ fwfile.len = 300
    /\ Cardinality(At("ack")) = 2
    /\ Last(io).at = "ack"
    /\ Last(io).bytes = <<21>>

\* C2: once the idle-read after the menu selection has returned no bytes, or
\* a reply whose last byte is not 'C', xb_firmware_update has returned -1 and
\* no XMODEM byte is ever written: no header, no payload, no checksum, no EOT.
C2_NoGoAheadNoTransfer ==
    \A j \in DOMAIN io :
        (io[j].at = "goahead" /\ BadGoAhead(io[j])) =>
            /\ j = Len(io)
            /\ fwret = -1
            /\ pc \in {"m_check", "exit"}
            /\ pc = "exit" => status = "EXIT_FAILURE"
            /\ \A m \in DOMAIN io : io[m].at \notin XmodemSites \cup {"run"}

\* the reply held a 'C' but ended in another byte, and the process has ended
C2_Witness ==
    /\ pc = "exit"
    /\ Last(io).at = "goahead"
    /\ Last(io).bytes = <<ChC, CR>>

\* the device never replied: twenty probes, each read returning nothing
SilentProbe ==
    LET R == Calls("r", {"probe"})
    IN  Len(R) = ProbeCeiling /\ \A k \in DOMAIN R : R[k].ret <= 0

\* C3: if the device gives no non-empty reply to any of the 20 probes, the
\* session fails and the transfer never starts: the menu selection byte '1'
\* is never written.
C3_SilentProbeAborts ==
    SilentProbe => (At("menu") = {} /\ status # "EXIT_SUCCESS")

\* what the claim of C4 expects on the link for blocks k..n of an image
RECURSIVE ExpectedBlocks(_, _, _)
ExpectedBlocks(img, k, n) ==
    IF k > n THEN <<>>
    ELSE LET data == SubSeq(img, 128 * (k - 1) + 1, 128 * k)
         IN  Only({<<SOH, k % 256, 255 - (k % 256)>> \o data
                       \o <<crc \div 256, crc % 256>>
                       \o ExpectedBlocks(img, k + 1, n) : crc \in {Crc16Xmodem(data)}})

\* the device ended its go-ahead with 'C', answered 0x06 after each of the
\* blocks and answered the EOT with a reply starting 0x06
DeviceAccepts ==
    /\ \E j \in At("goahead") : ~BadGoAhead(io[j])
    /\ Cardinality({j \in At("ack") : ~BadReply(io[j])}) = Blocks(fwfile)
    /\ \E j \in At("confirm") : GoodConfirm(io[j])

\* C4: when xb_firmware_update returns from a transfer of an image of N
\* blocks that the device accepted throughout, it returns 0 after exactly N
\* progress notifications, and the bytes it wrote are '1', then for each block
\* i = 1..N the header, the 128 bytes image[128(i-1) .. 128i) and the checksum
\* high byte first, then one EOT, and nothing else.
C4_AcceptedTransferOnWire ==
    (pc = "m_check" /\ DeviceAccepts) =>
        /\ fwret = 0
        /\ progress = Blocks(fwfile)
        /\ Bytes(Calls("w", {"menu"} \cup XmodemSites))
              = <<ChOne>> \o ExpectedBlocks(Image(fwfile), 1, Blocks(fwfile)) \o <<EOT>>
        /\ Last(io).at = "confirm"

\* a file of 300 bytes went out in three blocks and the update returned 0
C4_Witness ==
    /\ pc = "m_check"
    /\ fwret = 0
    /\ fwfile.len = 300
    /\ progress = 3
    /\ DeviceAccepts

\* C5: EOT is written at most once, and only when every block of the image
\* has been acknowledged with 0x06; once the idle-read after it has returned,
\* EOT went out exactly once, xb_firmware_update has returned, and it
\* returned 0 exactly if that read returned at least one byte, the first
\* 0x06, and -1 otherwise; main goes on only after such a confirmation.
C5_EotOnceThenConfirm ==
    /\ Cardinality(At("eot")) <= 1
    /\ \A j \in At("eot") :
          /\ Cardinality({m \in 1..j : io[m].at = "ack" /\ ~BadReply(io[m])})
                = Blocks(fwfile)
          /\ Cardinality({m \in 1..j : io[m].at = "header"}) = Blocks(fwfile)
          /\ \A m \in (j + 1)..Len(io) : io[m].at \in {"confirm", "run"}
    /\ \A j \in At("confirm") :
          /\ j > 1 /\ io[j - 1].at = "eot" /\ io[j - 1].bytes = <<EOT>>
          /\ Returned
          /\ fwret \in {0, -1}
          /\ fwret = 0 <=> GoodConfirm(io[j])
    /\ (pc \in {"m_run", "m_cleanup"} \/ status = "EXIT_SUCCESS") =>
          \E j \in At("confirm") : GoodConfirm(io[j])

\* three blocks were acknowledged and the reply to EOT held 0x06, but not
\* first: the update returned -1
C5_Witness ==
    /\ pc = "m_check"
    /\ fwret = -1
    /\ fwfile.len = 300
    /\ progress = 3
    /\ Last(io).at = "confirm"
    /\ Last(io).bytes = <<CR, ACK>>

\* the headers in io that went out as far as the block-number byte; the
\* header of the k-th block is the k-th call at its site
NumberedHeaders ==
    SelectSeq(io, LAMBDA e : e.at = "header" /\ Len(e.bytes) >= 2)

\* the statement of C6 as the specification makes it: for every block
\* transmitted, the block-number byte lies in 1..255 and is never 0.
C6_BlockNumberNeverZero ==
    LET H == NumberedHeaders
    IN  \A k \in DOMAIN H : H[k].bytes[2] \in 1..255

\* C6: for every block transmitted, the block-number byte of the k-th block
\* is k modulo 256: it lies in 0..255, and it is 0 exactly for the 256th
\* block and every later multiple of 256.
C6_BlockNumberModulo256 ==
    LET H == NumberedHeaders
    IN  \A k \in DOMAIN H :
            /\ H[k].bytes[2] = H[k].nth % 256
            /\ H[k].bytes[2] \in 0..255
            /\ H[k].bytes[2] = 0 <=> H[k].nth % 256 = 0

\* the header of the 256th block has gone out, with block number 0, after
\* that of the 255th with block number 255
C6_Witness ==
    LET H == NumberedHeaders
    IN  /\ pc = "fw_data"
        /\ Len(H) >= 2
        /\ Last(H).nth = 256
        /\ Last(H).bytes[2] = 0
        /\ H[Len(H) - 1].nth = 255
        /\ H[Len(H) - 1].bytes[2] = 255

\* C7: every header that went out whole is SOH, a block number b and the
\* byte 255 - b, so the second and third bytes sum to 255; a header cut short
\* is a prefix of one; the first block carries number 1, and the 257th block
\* carries number 1 and complement 254.
C7_HeaderNumberAndComplement ==
    LET H == Calls("w", {"header"})
    IN  \A k \in DOMAIN H :
            /\ H[k].ret = 0 =>
                  /\ Len(H[k].bytes) = 3
                  /\ H[k].bytes[1] = 1
                  /\ H[k].bytes[2] \in 0..255
                  /\ H[k].bytes[3] = 255 - H[k].bytes[2]
                  /\ H[k].bytes[2] + H[k].bytes[3] = 255
            /\ H[k].ret # 0 => Len(H[k].bytes) < 3
            /\ Len(H[k].bytes) >= 1 => H[k].bytes[1] = 1
            /\ (H[k].nth = 1 /\ Len(H[k].bytes) >= 2) => H[k].bytes[2] = 1
            /\ (H[k].nth = 257 /\ H[k].ret = 0) => H[k].bytes = <<1, 1, 254>>

\* the header of the 257th block has gone out
C7_Witness ==
    /\ pc = "fw_data"
    /\ Last(io).at = "header"
    /\ Last(io).nth = 257
    /\ Last(io).bytes = <<1, 1, 254>>

\* C8: for every 128-byte block, bytes 0x80..0xFF included, and whether char
\* is signed or not, xmodem_crc returns the CRC-16/XMODEM remainder
\* (polynomial 0x1021, register 0 at the start, most significant bit first,
\* no final exclusive or), a value of 16 bits; a block of zeros gives 0 and a
\* block of 0xFF gives the fixed non-zero value 0xEDA9.
C8_CrcIsXmodem ==
    pc = "crc_done" =>
        \E ref \in {Crc16Xmodem(crcIn)} :
            /\ \A charSigned \in BOOLEAN :
                  /\ crcOut[charSigned] = ref
                  /\ crcOut[charSigned] \in 0..65535
            /\ (\A k \in DOMAIN crcIn : crcIn[k] = 0) => ref = 0
            /\ (\A k \in DOMAIN crcIn : crcIn[k] = 255) => (ref = 60841 /\ ref # 0)

\* xmodem_crc has run on a block of 0xFF where char is signed
C8_Witness ==
    /\ pc = "crc_done"
    /\ \A k \in DOMAIN crcIn : crcIn[k] = 255
    /\ crcOut[TRUE] = 60841

\* xb_firmware_update is past the loading of the file and has not returned
ImageBuilt == pc \in {"fw_hdr", "fw_data", "fw_crc", "fw_ack", "fw_eot", "fw_confirm"}

\* C9: for a file of length L > 0, the image xb_firmware_update has built when
\* the transfer of blocks starts has as its length the smallest multiple of
\* 128 that is >= L (L itself when L is a multiple of 128), its bytes 0..L-1
\* are the file's and its bytes from L on are all 0xFF; a file of length 0 is
\* rejected: no image is built, no block is transmitted, the session fails.
C9_PaddedImage ==
    /\ ImageBuilt =>
          /\ fwfile.len > 0
          /\ len % 128 = 0
          /\ len >= fwfile.len
          /\ len - 128 < fwfile.len
          /\ fwfile.len % 128 = 0 => len = fwfile.len
          /\ \A k \in 0..(len - 1) :
                MemByte(fwbuf, fwfile, k)
                    = IF k < fwfile.len THEN FileByte(fwfile, k) ELSE 255
    /\ fwfile.len = 0 =>
          /\ ~ImageBuilt
          /\ \A j \in DOMAIN io : io[j].at \notin XmodemSites \cup {"run"}
          /\ Returned => fwret = -1
          /\ status # "EXIT_SUCCESS"

\* the image of a file of 300 bytes is built: 384 bytes, the last 84 of them
\* 0xFF
C9_Witness ==
    /\ pc = "fw_hdr"
    /\ bi = 0
    /\ fwfile.len = 300
    /\ len = 384
    /\ MemByte(fwbuf, fwfile, 299) = FileByte(fwfile, 299)
    /\ MemByte(fwbuf, fwfile, 300) = 255
    /\ MemByte(fwbuf, fwfile, 383) = 255

\* the probe is over
ProbeOver ==
    pc \notin {"m_open", "m_guard", "wfo_scan", "wfo_r1", "wfo_r2", "m_fr", "m_lines1",
               "wfo_done", "m_sbrk", "m_cbrk", "m_lines2", "m_setbaud", "m_probe"}

\* C10: in every run at most 20 probes are written, each a single carriage
\* return; if the device first gives a non-empty reply to the k-th, the probe
\* has ended there, after exactly k writes, and the handshake goes on; and the
\* probe ends before the 20th only on such a reply.
C10_ProbeStopsAtFirstReply ==
    LET W == Calls("w", {"probe"})
        R == Calls("r", {"probe"})
    IN  /\ Len(W) <= 20
        /\ Len(R) = Len(W)
        /\ \A k \in DOMAIN W :
              /\ W[k].bytes = IF W[k].ret = 0 THEN <<CR>> ELSE <<>>
        /\ \A k \in DOMAIN R :
              R[k].ret > 0 =>
                  /\ k = Len(R)
                  /\ Len(W) = k
                  /\ ProbeOver
                  /\ pc = "exit" =>
                        (At("menu") # {} \/ (faults > 0 /\ status = "EXIT_FAILURE"))
        /\ (ProbeOver /\ pc # "exit") =>
              /\ Len(R) >= 1
              /\ Last(R).ret > 0 \/ Len(R) = 20
        /\ (~ProbeOver /\ Len(R) >= 1) => (pc = "m_probe" /\ Last(R).ret <= 0)

\* the device answered the 15th probe and the handshake is going on
C10_Witness ==
    LET W == Calls("w", {"probe"})
        R == Calls("r", {"probe"})
    IN  /\ pc = "m_restore"
        /\ Len(W) = 15
        /\ Len(R) = 15
        /\ R[15].ret > 0
        /\ \A k \in 1..14 : R[k].ret <= 0

\* C11: on every path where the session ends in failure after the link has
\* been switched to 115200 baud, the process attempts to set the link's baud
\* rate back before it exits: cfsetspeed away from 115200 and tcsetattr have
\* run, so serial no longer holds 115200.
C11_FailureRestoresBaud ==
    (pc = "exit" /\ status = "EXIT_FAILURE" /\ tty.speed = B115200) =>
        serial.speed # B115200

\* C12: after a successful session the baud rate of the link is the one it
\* had before the session, the value tcgetattr captured, whatever that was.
C12_CleanupRestoresSavedBaud ==
    status = "EXIT_SUCCESS" => tty.speed = saved.speed

\* a write of the handshake that failed
FailedHandshakeWrite(e) ==
    e.op = "w" /\ e.at \in {"guard", "at", "probe"} /\ e.ret < 0

\* C13: if a step of the handshake fails (the write of the guard sequence, of
\* the force-reset command or of a probe, the setting of the control lines or
\* of the break), the session has aborted: the process has exited with
\* failure, and nothing followed the failed step on the link.
C13_HandshakeFailureAborts ==
    /\ \A j \in DOMAIN io :
          FailedHandshakeWrite(io[j]) =>
              (j = Len(io) /\ pc = "exit" /\ status = "EXIT_FAILURE")
    /\ (pc \in {"m_sbrk", "m_cbrk", "m_lines2", "m_setbaud", "m_probe"}
           /\ mctl = "unset") => FALSE
    /\ (pc \in {"m_cbrk"} /\ ~brk) => FALSE

\* the request of a command: "AT", the two-letter code, the argument, '\r'
Request(code, arg) == <<ChA, ChT>> \o code \o arg \o <<CR>>

\* C14: whatever the length of the formatted argument, xb_send_command never
\* stores a byte at buf[256] or beyond and never writes more than 256 bytes;
\* once it is past the building of the request, either it has returned -1
\* without writing, the request being too long for buf, or it has given
\* xb_write exactly "AT", the code, the argument and '\r'.
C14_CommandWithinBuffer ==
    /\ \A k \in DOMAIN cmdBuf : k < 256
    /\ \A j \in At("at") : Len(io[j].bytes) <= 256
    /\ pc \in {"wfo_scan", "wfo_r1", "wfo_r2", "wfo_done", "cmd_done"} =>
          IF At("at") = {}
          THEN cmdRet = -1 /\ Len(Request(<<ChF, ChR>>, cmdArg)) > 256
          ELSE /\ Len(Request(<<ChF, ChR>>, cmdArg)) <= 256
               /\ \A j \in At("at") :
                     /\ io[j].bytes
                           = SubSeq(Request(<<ChF, ChR>>, cmdArg), 1, Len(io[j].bytes))
                     /\ io[j].ret = 0 => io[j].bytes = Request(<<ChF, ChR>>, cmdArg)

\* C15: when the device rejects the k-th block of the image, counting from
\* 1, the failure the update reports names block k.
C15_RejectedBlockIsNamed ==
    \A j \in At("ack") :
        BadReply(io[j]) => diag = <<"failed to transfer block", io[j].nth>>

\* xb_firmware_update is executing
InUpdate ==
    pc \in {"fw_menu", "fw_goahead", "fw_stat", "fw_alloc", "fw_read", "fw_hdr",
            "fw_data", "fw_crc", "fw_ack", "fw_eot", "fw_confirm"}

\* C16: whenever xb_firmware_update is executing, the line is at 115200 baud
\* with VMIN = 1 and VTIME = 0; on a line that was not in the short policy
\* before the session, VMIN = 0 with VTIME = 1 is in force only from the
\* start of the probe to the restoring of the policy, or at an exit caused by
\* the failure of that restoring, before any byte of the transfer.
C16_UpdateRunsAtBlockingPolicy ==
    /\ InUpdate => tty = [speed |-> 115200, vmin |-> 1, vtime |-> 0]
    /\ (tty.vmin = 0 /\ tty.vtime = 1) =>
          \/ pc \in {"m_probe", "m_restore"}
          \/ pc = "exit" /\ status = "EXIT_FAILURE" /\ At("menu") = {}

\* the probe was answered in its second round, the policy was restored and
\* the update is about to write the menu selection
C16_Witness ==
    /\ pc = "fw_menu"
    /\ i = 1
    /\ Cardinality(At("probe")) = 4
    /\ tty = [speed |-> 115200, vmin |-> 1, vtime |-> 0]
    /\ serial = tty

\* C17: xb_read returns the number of bytes it has stored, never more than
\* the size it was given; it returns 0 only when it stored nothing, and a
\* later read() that returns 0 or -1 does not turn bytes already stored into
\* a result of 0 or an error.
C17_XbReadReturnsStored ==
    \A j \in DOMAIN io :
        (io[j].op = "r" /\ io[j].at \in {"probe", "goahead", "confirm"}) =>
            /\ io[j].ret <= 1024
            /\ Len(io[j].bytes) <= 1024
            /\ io[j].bytes # <<>> => io[j].ret = Len(io[j].bytes)
            /\ io[j].ret = 0 => io[j].bytes = <<>>

\* C18: wait_for_ok returns only after it has read a byte 'O', every byte
\* before it dropped, and exactly two further bytes after that 'O'.
C18_WaitConsumesOkReply ==
    pc = "wfo_done" =>
        \E p \in DOMAIN wfoSeen :
            /\ wfoSeen[p] = ChO
            /\ \A q \in 1..(p - 1) : wfoSeen[q] # ChO
            /\ Len(wfoSeen) = p + 2

\* C20: the run-firmware byte '2' is written at most once and only in runs in
\* which xb_firmware_update returned 0, every block and the EOT having been
\* acknowledged with 0x06; where the update returned -1, '2' is never written
\* and the process does not exit with success.
C20_RunOnlyAfterSuccess ==
    /\ Cardinality(At("run")) <= 1
    /\ \A j \in At("run") :
          /\ io[j].bytes \in {<<ChTwo>>, <<>>}
          /\ fwret = 0
          /\ j > 1 /\ io[j - 1].at = "confirm" /\ GoodConfirm(io[j - 1])
          /\ \E m \in At("eot") : io[m].bytes = <<EOT>>
          /\ Cardinality({m \in At("ack") : ~BadReply(io[m])}) = Blocks(fwfile)
    /\ fwret = -1 => (At("run") = {} /\ status # "EXIT_SUCCESS" /\ pc \in {"m_check", "exit"})

\* three blocks and the EOT were acknowledged and '2' has been written
C20_Witness ==
    /\ pc = "m_cleanup"
    /\ fwfile.len = 300
    /\ progress = 3
    /\ Last(io).at = "run"
    /\ Last(io).bytes = <<ChTwo>>

\* the sum of the first k results of a run of write() calls
RECURSIVE Progress(_, _)
Progress(rets, k) == IF k = 0 THEN 0 ELSE Progress(rets, k - 1) + rets[k]

\* the write() calls of the run rets that report no progress while bytes of
\* a buffer of n bytes are left, every earlier call having made progress
FirstStalls(rets, n) ==
    {k \in DOMAIN rets : /\ rets[k] <= 0
                         /\ \A q \in 1..(k - 1) : rets[q] > 0
                         /\ Progress(rets, k - 1) < n}

\* C19: for every buffer and every run of write() results, xb_write returns
\* 0 only when the stream has accepted exactly the bytes of the buffer, in
\* order and once each; it returns -1 at the first write() that returns 0 or
\* -1, the stream having accepted the bytes before that call and no more; and
\* it returns 0 when every write() makes progress.
C19_WriteAllOrFail ==
    pc = "wr_done" =>
        /\ wrOut.ret \in {0, -1}
        /\ wrOut.ret = 0 => wrOut.sent = wrBuf
        /\ \A k \in FirstStalls(wrRets, Len(wrBuf)) :
              /\ wrOut.ret = -1
              /\ wrOut.sent = SubSeq(wrBuf, 1, Progress(wrRets, k - 1))
        /\ FirstStalls(wrRets, Len(wrBuf)) = {} => wrOut.ret = 0
        /\ wrOut.ret = -1 => FirstStalls(wrRets, Len(wrBuf)) # {}

\* two partial writes went through and the third write() returned 0
C19_Witness ==
    /\ pc = "wr_done"
    /\ wrBuf = <<1, 2, 3, 4>>
    /\ wrRets = <<1, 2, 0>>
    /\ wrOut = [ret |-> -1, sent |-> <<1, 2, 3>>]
====
